---- MODULE Spec2Model ----
(***************************************************************************)
(* A model of pyddm/ddm/sample.py: the Sample container, its constructor   *)
(* validation, __add__, subset, from_numpy_array, the condition queries,   *)
(* the probability and histogram statistics, and _Sample_Iter_Wraper.      *)
(*                                                                         *)
(* Python values are modelled as follows.                                  *)
(*   - A one-dimensional container is a record [k, v]: k is its Python     *)
(*     type ("ndarray" or "list"), v the sequence of its elements.  The    *)
(*     type matters: `+` concatenates lists and adds arrays elementwise,   *)
(*     and the constructor accepts only ndarrays for times and for the     *)
(*     first two elements of a condition tuple.                            *)
(*   - A condition tuple is a sequence of 2 or 3 containers (Python's      *)
(*     v[0], v[1], v[2] are v[1], v[2], v[3] here).                        *)
(*   - A dict of conditions is its key list in insertion order (keys) plus *)
(*     a function from the key set to the tuples (conditions).             *)
(*   - A true division n/d is the pair [num, den], compared by cross       *)
(*     multiplication.  The module imports paranoid, which is Python 3     *)
(*     only, so `/` on two ints is true division and map() is lazy.        *)
(*   - A raised exception is the status string of the operation's result.  *)
(***************************************************************************)
EXTENDS Integers, Sequences, FiniteSets, TLC

VARIABLES heap, last, iter

vars == <<heap, last, iter>>

(* ------------------------------ bounds -------------------------------- *)
\* longest time / value container a caller passes to the constructor
MaxLen == 1
\* largest non_decision a caller passes
MaxND == 1
\* number of Sample objects kept alive at once
MaxSamples == 2
\* rows and condition columns of a table passed to from_numpy_array
MaxRows == 2
MaxCols == 3
\* largest T_dur passed to the pdf and cdf methods
MaxDur == 2
\* the Samples the query specification starts from: trials with a time, and
\* the largest time
MaxTrials == 2
MaxTime == 4

\* the condition names a caller passes to the constructor, and those it asks for
Names == {"a"}

AskedNames == {"a", "b"}

\* the names of a table's columns, in the order sorted() gives them
NameOrder == <<"a", "b", "c", "d">>

(* --------------------------- Python helpers --------------------------- *)
Arr(s) == [k |-> "ndarray", v |-> s]

Lst(s) == [k |-> "list", v |-> s]

IsNDArray(x) == x.k = "ndarray"

Range(f) == {f[i] : i \in DOMAIN f}

Min2(a, b) == IF a < b THEN a ELSE b

\* numpy broadcasting of two 1-d shapes: equal lengths, or one of them 1
Broadcastable(n, m) == n = m \/ n = 1 \/ m = 1

BroadcastLen(n, m) == IF n = m THEN n ELSE IF n = 1 THEN m ELSE n

\* Python `x + y` on two containers: list + list concatenates; as soon as one
\* operand is an ndarray the other is converted and the sum is elementwise
\* with broadcasting, raising ValueError on incompatible shapes.
Plus(x, y) ==
  IF x.k = "list" /\ y.k = "list"
  THEN [ok |-> TRUE, c |-> Lst(x.v \o y.v)]
  ELSE LET n == Len(x.v)
           m == Len(y.v)
       IN IF Broadcastable(n, m)
          THEN [ok |-> TRUE,
                c |-> Arr([i \in 1..BroadcastLen(n, m) |->
                            x.v[IF n = 1 THEN 1 ELSE i] + y.v[IF m = 1 THEN 1 ELSE i]])]
          ELSE [ok |-> FALSE, c |-> Arr(<<>>)]

\* total order on condition names, for sorted()
NameRank(n) == CHOOSE i \in DOMAIN NameOrder : NameOrder[i] = n

RECURSIVE InsertSorted(_, _)
InsertSorted(n, s) ==
  IF s = <<>> THEN <<n>>
  ELSE IF NameRank(n) <= NameRank(Head(s)) THEN <<n>> \o s
  ELSE <<Head(s)>> \o InsertSorted(n, Tail(s))

RECURSIVE Sorted(_)
Sorted(s) == IF s = <<>> THEN <<>> ELSE InsertSorted(Head(s), Sorted(Tail(s)))

(* ------------------------- Sample.__init__ ---------------------------- *)
\* the loop body without its lines 77-80: a constructor that takes any
\* non-decision values, against which the alignment invariant is tested
CondTupleOK_SkipsThird(v, corr, err, non_decision) ==
  /\ Len(v) \in {2, 3}
  /\ IsNDArray(v[1])
  /\ IsNDArray(v[2])
  /\ Len(v[1].v) = Len(corr.v)
  /\ Len(v[2].v) = Len(err.v)

\* the assertions of the loop body over kwargs, lines 68-80
CondTupleOK(v, corr, err, non_decision) ==
  /\ Len(v) \in {2, 3}
  /\ IsNDArray(v[1])
  /\ IsNDArray(v[2])
  /\ Len(v[1].v) = Len(corr.v)
  /\ Len(v[2].v) = Len(err.v)
  /\ IF Len(v) = 3 THEN Len(v[3].v) = non_decision ELSE non_decision = 0

InitAsserts(corr, err, non_decision, keys, kw) ==
  /\ IsNDArray(corr)
  /\ IsNDArray(err)
  /\ non_decision \in Nat
  /\ \A k \in Range(keys) : CondTupleOK(kw[k], corr, err, non_decision)

\* Sample(corr, err, non_decision, **kw): the object, or the AssertionError
Sample(corr, err, non_decision, keys, kw) ==
  IF InitAsserts(corr, err, non_decision, keys, kw)
  THEN [st |-> "ok",
        obj |-> [corr |-> corr, err |-> err, non_decision |-> non_decision,
                 keys |-> keys, conditions |-> kw]]
  ELSE [st |-> "AssertionError", obj |-> <<>>]

\* a length that leaves out the non-decision trials, against which the
\* probabilities are tested
SampleLen_NoNonDecision(s) == Len(s.corr.v) + Len(s.err.v)

\* Sample.__len__
SampleLen(s) == Len(s.corr.v) + Len(s.err.v) + s.non_decision

(* ------------------------- Sample.__add__ ----------------------------- *)
\* the third element of a condition tuple, or [] for a 2-tuple (lines 98-99)
ThirdOrEmpty(t) == IF Len(t) = 3 THEN t[3] ELSE Lst(<<>>)

AddConditions(self, other) ==
  [k \in Range(self.keys) |->
     <<Plus(self.conditions[k][1], other.conditions[k][1]),
       Plus(self.conditions[k][2], other.conditions[k][2]),
       Plus(ThirdOrEmpty(self.conditions[k]), ThirdOrEmpty(other.conditions[k]))>>]

SameConditionNames(self, other) == Sorted(self.keys) = Sorted(other.keys)

SampleAdd(self, other) ==
  IF ~SameConditionNames(self, other)
  THEN [st |-> "AssertionError: Canot add with unlike conditions", obj |-> <<>>]
  ELSE LET corr == Plus(self.corr, other.corr)
           err == Plus(self.err, other.err)
           cs == AddConditions(self, other)
       IN IF ~corr.ok \/ ~err.ok
             \/ \E k \in Range(self.keys) : \E j \in 1..3 : ~cs[k][j].ok
          THEN [st |-> "ValueError", obj |-> <<>>]
          ELSE Sample(corr.c, err.c, self.non_decision + other.non_decision,
                      self.keys,
                      [k \in Range(self.keys) |->
                         <<cs[k][1].c, cs[k][2].c, cs[k][3].c>>])

(* --------------------------- Sample.subset ---------------------------- *)
\* A filter value is [kind, s, x]: a "callable" accepting the values in s, a
\* "container" holding the values in s, or the "scalar" x.
HasCall(f) == f.kind = "callable"

HasContains(f) == f.kind = "container"

Ones(n) == [i \in 1..n |-> TRUE]

LogicalAnd(m, t) == [i \in DOMAIN m |-> m[i] /\ t[i]]

\* np.logical_and(mask, map(v, values)), lines 170-172: map() returns an
\* iterator, which numpy wraps as one (truthy) object, so every element of the
\* mask is and-ed with True and the predicate is never called.
\* (Where map() returns a list the predicate is and-ed in here instead; the
\* equality tests of the else branch that follows clear the mask either way.)
AndMapObject(mask, values, f) == [i \in DOMAIN mask |-> mask[i] /\ TRUE]

\* [i in v for i in values], lines 174-176
InTests(values, f) == [i \in DOMAIN values |-> values[i] \in f.s]

\* [i == v for i in values], lines 178-180: a number never equals a function
EqTests(values, f) == [i \in DOMAIN values |-> f.kind = "scalar" /\ values[i] = f.x]

\* one pass of the loop body of lines 168-180 over one partition
FilterMask(mask, values, f) ==
  LET m1 == IF HasCall(f) THEN AndMapObject(mask, values, f) ELSE mask
  IN IF HasContains(f)
     THEN LogicalAnd(m1, InTests(values, f))
     ELSE LogicalAnd(m1, EqTests(values, f))

RECURSIVE MaskOver(_, _, _, _, _)
\* the mask of partition j (1 correct, 2 error, 3 non-decision) after the
\* filters fkeys[1..n] have been applied
MaskOver(self, fkeys, fv, j, n) ==
  IF n = 0
  THEN Ones(IF j = 1 THEN Len(self.corr.v)
            ELSE IF j = 2 THEN Len(self.err.v) ELSE self.non_decision)
  ELSE LET prev == MaskOver(self, fkeys, fv, j, n - 1)
           k == fkeys[n]
       IN IF j = 3 /\ self.non_decision = 0
          THEN <<>>
          ELSE FilterMask(prev, self.conditions[k][j].v, fv[k])

RECURSIVE Compress(_, _)
\* itertools.compress(values, mask)
Compress(values, mask) ==
  IF values = <<>> \/ mask = <<>> THEN <<>>
  ELSE (IF Head(mask) THEN <<Head(values)>> ELSE <<>>)
       \o Compress(Tail(values), Tail(mask))

\* sum(mask)
CountTrue(mask) == Cardinality({i \in DOMAIN mask : mask[i]})

SampleSubset(self, fkeys, fv) ==
  IF \E k \in Range(fkeys) : k \notin Range(self.keys)
  THEN [st |-> "KeyError", obj |-> <<>>]
  ELSE LET mask_corr == MaskOver(self, fkeys, fv, 1, Len(fkeys))
           mask_err == MaskOver(self, fkeys, fv, 2, Len(fkeys))
           mask_non == MaskOver(self, fkeys, fv, 3, Len(fkeys))
           filtered_conditions ==
             [k \in Range(self.keys) |->
                <<Lst(Compress(self.conditions[k][1].v, mask_corr)),
                  Lst(Compress(self.conditions[k][2].v, mask_err)),
                  IF Len(self.conditions[k]) = 3
                  THEN Lst(Compress(self.conditions[k][3].v, mask_non))
                  ELSE Lst(<<>>)>>]
       IN Sample(Arr(Compress(self.corr.v, mask_corr)),
                 Arr(Compress(self.err.v, mask_err)),
                 CountTrue(mask_non), self.keys, filtered_conditions)

(* ---------------------- Sample.from_numpy_array ----------------------- *)
\* data is [m, rows]: m columns, rows a sequence of m-long rows
RECURSIVE Column(_, _, _)
\* data[c, j] (flag = 1) and data[nc, j] (flag = 0): column j of the rows whose
\* correctness flag, as c = data[:,1].astype(bool) or nc = (1-data[:,1])
\* .astype(bool), selects them; j counts from 1 here
Column(rows, flag, j) ==
  IF rows = <<>> THEN <<>>
  ELSE (IF (flag = 1 /\ Head(rows)[2] # 0) \/ (flag = 0 /\ 1 - Head(rows)[2] # 0)
        THEN <<Head(rows)[j]>> ELSE <<>>)
       \o Column(Tail(rows), flag, j)

\* pt(x), lines 128-132: an array whose values are all whole is cast to int.
\* Every number of this model is whole, so the cast leaves the values as
\* they are.
Pt(values) == Arr(values)

FromNumpyRequires(data, column_names) ==
  /\ data.m >= 2
  /\ \A i \in DOMAIN data.rows : data.rows[i][2] \in {0, 1}
  /\ data.m - 2 = Len(column_names)

\* column_names[2:]
FromIndex2(column_names) ==
  [i \in 1..(IF Len(column_names) > 2 THEN Len(column_names) - 2 ELSE 0) |->
     column_names[i + 2]]

SampleFromNumpyArray(data, column_names) ==
  IF ~FromNumpyRequires(data, column_names)
  THEN [st |-> "EntryConditionsError", obj |-> <<>>]
  ELSE LET ks == FromIndex2(column_names)
           \* enumerate(): the i-th (from 0) remaining name gets column i+2 (from 0)
           conditions ==
             [k \in Range(ks) |->
                LET i == CHOOSE i \in DOMAIN ks : ks[i] = k
                IN <<Pt(Column(data.rows, 1, i + 2)),
                     Pt(Column(data.rows, 0, i + 2)),
                     Lst(<<>>)>>]
           r == Sample(Pt(Column(data.rows, 1, 1)),
                       Pt(Column(data.rows, 0, 1)), 0, ks, conditions)
       IN IF r.st # "ok" THEN r
          ELSE IF Len(column_names) # Len(r.obj.keys)
          THEN [st |-> "ExitConditionsError", obj |-> <<>>]
          ELSE r

(* ------------------------- condition queries -------------------------- *)
\* Sample.condition_names
ConditionNames(self) == self.keys

\* set(cs[cond][0]).union(set(cs[cond][1]))
ValueSet(self, cond) ==
  Range(self.conditions[cond][1].v) \cup Range(self.conditions[cond][2].v)

RECURSIVE SortedList(_)
\* sorted(list(S)) for a finite set of numbers
SortedList(S) ==
  IF S = {} THEN <<>>
  ELSE LET m == CHOOSE x \in S : \A y \in S : x <= y
       IN <<m>> \o SortedList(S \ {m})

\* Sample.condition_values, with its @requires
ConditionValues(self, cond) ==
  IF cond \notin Range(ConditionNames(self))
  THEN [st |-> "EntryConditionsError", ret |-> <<>>]
  ELSE [st |-> "ok", ret |-> SortedList(ValueSet(self, cond))]

\* [n for n in names if n in required_conditions]; required_conditions is
\* [none, names]: None, or the iterable of the names in names
RequiredNames(self, required_conditions) ==
  IF required_conditions.none THEN ConditionNames(self)
  ELSE SelectSeq(ConditionNames(self), LAMBDA n : n \in required_conditions.names)

\* the filters subset() gets from dict(zip(names, p)): one scalar per name
ScalarFilters(p) == [k \in DOMAIN p |-> [kind |-> "scalar", s |-> {}, x |-> p[k]]]

\* Sample.condition_combinations: a list of dicts, here the set of its
\* elements (itertools.product over sets yields them in no fixed order)
ConditionCombinations(self, required_conditions) ==
  LET names == RequiredNames(self, required_conditions)
      product == {p \in [Range(names) -> UNION {ValueSet(self, c) : c \in Range(names)}] :
                    \A c \in Range(names) : p[c] \in ValueSet(self, c)}
      sub(p) == SampleSubset(self, names, ScalarFilters(p))
  IN IF \E p \in product : sub(p).st # "ok"
     THEN [st |-> sub(CHOOSE p \in product : sub(p).st # "ok").st, ret |-> {}]
     ELSE LET combs == {p \in product : SampleLen(sub(p).obj) # 0}
          IN [st |-> "ok", ret |-> IF combs = {} THEN {<<>>} ELSE combs]

(* ---------------------------- statistics ------------------------------ *)
\* the value of a true division
Ratio(n, d) == [num |-> n, den |-> d]

RatAdd(a, b) == Ratio(a.num * b.den + b.num * a.den, a.den * b.den)

RatHalf(a) == Ratio(a.num, 2 * a.den)

\* @returns(Range(0, 1))
InRange01(r) == 0 <= r.num /\ r.num <= r.den

Returns01(r) ==
  IF InRange01(r) THEN [st |-> "ok", ret |-> r]
  ELSE [st |-> "ReturnTypeError", ret |-> <<>>]

Divide(n, d) ==
  IF d = 0 THEN [st |-> "ZeroDivisionError", ret |-> <<>>]
  ELSE Returns01(Ratio(n, d))

ProbCorrect(self) == Divide(Len(self.corr.v), SampleLen(self))

ProbError(self) == Divide(Len(self.err.v), SampleLen(self))

ProbUndecided(self) == Divide(self.non_decision, SampleLen(self))

ProbCorrectForced(self) ==
  IF ProbCorrect(self).st # "ok" THEN ProbCorrect(self)
  ELSE Returns01(RatAdd(ProbCorrect(self).ret, RatHalf(ProbUndecided(self).ret)))

ProbErrorForced(self) ==
  IF ProbError(self).st # "ok" THEN ProbError(self)
  ELSE Returns01(RatAdd(ProbError(self).ret, RatHalf(ProbUndecided(self).ret)))

\* @requires('T_dur/dt < 1e5')
TooLarge == 100000

\* Times, dt and T_dur are whole numbers of one time quantum, and dt is an
\* even number of quanta, so that dt/2 is whole.
Half(dt) == dt \div 2

\* int(T_dur/dt)+1
Bins(dt, T_dur) == (T_dur \div dt) + 1

\* len(t_domain(dt, T_dur)): np.linspace(0, T_dur, T_dur/dt+1) truncates its
\* count to an int
TDomainLen(dt, T_dur) == (T_dur \div dt) + 1

\* a histogram whose last bin is open on the right (a value at hi falls in bin
\* bins + 1, which is none), against which the mass of the pdf is tested
BinOf_NoClamp(x, bins, lo, hi) == (((x - lo) * bins) \div (hi - lo)) + 1

\* np.histogram(values, bins=bins, range=(lo, hi))[0]: bins equal-width bins
\* over [lo, hi], the last one closed on the right; a value outside [lo, hi]
\* is in no bin
BinOf(x, bins, lo, hi) == Min2(((x - lo) * bins) \div (hi - lo), bins - 1) + 1

Histogram(values, bins, lo, hi) ==
  [b \in 1..bins |->
     Cardinality({i \in DOMAIN values :
                    /\ lo <= values[i]
                    /\ values[i] <= hi
                    /\ BinOf(values[i], bins, lo, hi) = b})]

\* the body shared by pdf_corr and pdf_err, with their decorators
Pdf(self, values, dt, T_dur) ==
  IF ~(T_dur < TooLarge * dt)
  THEN [st |-> "EntryConditionsError", ret |-> <<>>]
  ELSE LET counts == Histogram(values, Bins(dt, T_dur), 0 - Half(dt), T_dur + Half(dt))
       IN IF SampleLen(self) = 0
          \* counts/0 is an array of nan, which is no NDArray(t=Positive0)
          THEN [st |-> "ReturnTypeError", ret |-> <<>>]
          ELSE IF Len(counts) # TDomainLen(dt, T_dur)
          THEN [st |-> "ExitConditionsError", ret |-> <<>>]
          ELSE [st |-> "ok",
                ret |-> [b \in DOMAIN counts |-> Ratio(counts[b], SampleLen(self) * dt)]]

PdfCorr(self, dt, T_dur) == Pdf(self, self.corr.v, dt, T_dur)

PdfErr(self, dt, T_dur) == Pdf(self, self.err.v, dt, T_dur)

RECURSIVE SumNum(_, _)
\* the sum of the numerators of pdf[1..n] (one common denominator)
SumNum(pdf, n) == IF n = 0 THEN 0 ELSE SumNum(pdf, n - 1) + pdf[n].num

\* np.cumsum(pdf)*dt
Cdf(pdf, dt) ==
  IF pdf.st # "ok" THEN pdf
  ELSE [st |-> "ok",
        ret |-> [b \in DOMAIN pdf.ret |-> Ratio(SumNum(pdf.ret, b) * dt, pdf.ret[b].den)]]

CdfCorr(self, dt, T_dur) == Cdf(PdfCorr(self, dt, T_dur), dt)

CdfErr(self, dt, T_dur) == Cdf(PdfErr(self, dt, T_dur), dt)

(* ----------------------- _Sample_Iter_Wraper -------------------------- *)
\* __init__
IterInit(sid, correct) == [live |-> TRUE, sample |-> sid, i |-> 0, correct |-> correct]

\* no iterator is in use
NoIter == [live |-> FALSE, sample |-> 0, i |-> 0, correct |-> FALSE]

\* next(): the iterator's new i, and the pair returned or the exception
IterNextResult(it, sample) ==
  IF it.i = SampleLen(sample)
  THEN [st |-> "StopIteration", i |-> it.i, ret |-> <<>>]
  ELSE LET i == it.i + 1
           rt == IF it.correct THEN sample.corr ELSE sample.err
           ind == IF it.correct THEN 1 ELSE 2
       IN IF i > Len(rt.v)
          THEN [st |-> "IndexError", i |-> i, ret |-> <<>>]
          ELSE [st |-> "ok", i |-> i,
                ret |-> <<rt.v[i],
                          [k \in Range(sample.keys) |-> sample.conditions[k][ind].v[i]]>>]

(* ------------------------------ inputs -------------------------------- *)
\* the times and values a caller passes: 1, 2, .., n
Ramp(n) == [i \in 1..n |-> i]

\* times and the first two elements of a condition tuple are passed as
\* arrays, the third element as an array or a list
ArgTimes == {Arr(Ramp(l)) : l \in 0..MaxLen}

ArgThird == {[k |-> kd, v |-> Ramp(l)] : kd \in {"ndarray", "list"}, l \in 0..MaxND}

ArgTuples ==
  {<<c, e>> : c \in ArgTimes, e \in ArgTimes}
  \cup {<<c, e, n>> : c \in ArgTimes, e \in ArgTimes, n \in ArgThird}

ArgKeys == {<<>>} \cup {<<n>> : n \in Names}

\* a predicate true of 1 alone, the container [1], the scalar 1
ArgFilters ==
  {[kind |-> "callable", s |-> {1}, x |-> 0],
   [kind |-> "container", s |-> {1}, x |-> 0],
   [kind |-> "scalar", s |-> {}, x |-> 1]}

ArgFilterKeys == {<<>>} \cup {<<n>> : n \in AskedNames}

\* tables of m columns: row r has time r, any flag, and r + j in column j
ArgTables ==
  {[m |-> m,
    rows |-> [r \in 1..nr |-> [j \in 1..m |->
                IF j = 1 THEN r ELSE IF j = 2 THEN fl[r] ELSE r + j]]] :
     m \in 2..(2 + MaxCols), nr \in 0..MaxRows, fl \in [1..MaxRows -> {0, 1}]}

ArgColumnNames == {SubSeq(NameOrder, 1, n) : n \in 0..MaxCols}

ArgRequired ==
  {[none |-> TRUE, names |-> {}]} \cup {[none |-> FALSE, names |-> S] : S \in {{}, {"a"}}}

ArgDt == {2, 4}

ArgDur == 1..MaxDur

RECURSIVE SeqsUpTo(_, _)
SeqsUpTo(S, n) ==
  IF n = 0 THEN {<<>>}
  ELSE LET shorter == SeqsUpTo(S, n - 1)
       IN shorter \cup {Append(q, x) : q \in {t \in shorter : Len(t) = n - 1}, x \in S}

\* the Samples the query specification starts from, each one built by the
\* constructor: any times, with no condition or with the one condition "a"
QuerySamples ==
  {r.obj : r \in
     {x \in {Sample(Arr(c), Arr(e), nd,
                    IF wc THEN <<"a">> ELSE <<>>,
                    IF wc THEN [k \in {"a"} |->
                                  <<Arr([i \in 1..Len(c) |-> 10 + i]),
                                    Arr([i \in 1..Len(e) |-> 20 + i]),
                                    Lst(Ramp(nd))>>]
                    ELSE <<>>) :
                c \in SeqsUpTo(0..MaxTime, MaxTrials),
                e \in SeqsUpTo(0..MaxTime, MaxTrials),
                nd \in 0..MaxND, wc \in BOOLEAN} :
        x.st = "ok" /\ Len(x.obj.corr.v) + Len(x.obj.err.v) <= MaxTrials}}

(* ------------------------------ actions ------------------------------- *)
\* a constructed Sample stays alive while there is room for it
Keep(r) == IF r.st = "ok" /\ Len(heap) < MaxSamples THEN Append(heap, r.obj) ELSE heap

Returned(op, args, r) == [op |-> op, st |-> r.st, args |-> args, ret |-> r.obj]

Answered(op, args, r) == [op |-> op, st |-> r.st, args |-> args, ret |-> r.ret]

Init ==
  /\ heap = <<>>
  /\ last = [op |-> "none", st |-> "ok", args |-> <<>>, ret |-> <<>>]
  /\ iter = NoIter

InitQuery ==
  /\ heap \in {<<s>> : s \in QuerySamples}
  /\ last = [op |-> "none", st |-> "ok", args |-> <<>>, ret |-> <<>>]
  /\ iter = NoIter

New ==
  /\ Len(heap) < MaxSamples
  /\ \E corr \in ArgTimes, err \in ArgTimes, nd \in 0..MaxND, keys \in ArgKeys :
       \E kw \in [Range(keys) -> ArgTuples] :
          LET r == Sample(corr, err, nd, keys, kw)
          IN /\ heap' = Keep(r)
             /\ last' = Returned("Sample", <<corr, err, nd, keys, kw>>, r)
  /\ iter' = NoIter

\* an add that stores its result in its left operand, against which the
\* immutability of Samples is tested
Add_InPlace ==
  /\ \E i \in 1..Len(heap), j \in 1..Len(heap) :
       LET r == SampleAdd(heap[i], heap[j])
       IN /\ heap' = IF r.st = "ok" THEN [heap EXCEPT ![i] = r.obj] ELSE heap
          /\ last' = Returned("__add__", <<i, j>>, r)
  /\ iter' = NoIter

Add ==
  /\ \E i \in 1..Len(heap), j \in 1..Len(heap) :
       LET r == SampleAdd(heap[i], heap[j])
       IN /\ heap' = Keep(r)
          /\ last' = Returned("__add__", <<i, j>>, r)
  /\ iter' = NoIter

Subset ==
  /\ \E i \in 1..Len(heap), fkeys \in ArgFilterKeys :
       \E fv \in [Range(fkeys) -> ArgFilters] :
          LET r == SampleSubset(heap[i], fkeys, fv)
          IN /\ heap' = Keep(r)
             /\ last' = Returned("subset", <<i, fkeys, fv>>, r)
  /\ iter' = NoIter

FromNumpyArray ==
  /\ Len(heap) < MaxSamples
  /\ \E data \in ArgTables :
     \E column_names \in {cn \in ArgColumnNames : Len(cn) \in {data.m - 2, data.m - 1}} :
       LET r == SampleFromNumpyArray(data, column_names)
       IN /\ heap' = Keep(r)
          /\ last' = Returned("from_numpy_array", <<data, column_names>>, r)
  /\ iter' = NoIter

Length ==
  /\ \E i \in 1..Len(heap) :
       last' = [op |-> "__len__", st |-> "ok", args |-> <<i>>, ret |-> SampleLen(heap[i])]
  /\ iter' = NoIter
  /\ UNCHANGED heap

\* __iter__: np.concatenate([self.corr, self.err])
AllTimes ==
  /\ \E i \in 1..Len(heap) :
       last' = [op |-> "__iter__", st |-> "ok", args |-> <<i>>,
                ret |-> heap[i].corr.v \o heap[i].err.v]
  /\ iter' = NoIter
  /\ UNCHANGED heap

Conditions ==
  /\ \E i \in 1..Len(heap) :
       \/ last' = [op |-> "condition_names", st |-> "ok", args |-> <<i>>,
                   ret |-> ConditionNames(heap[i])]
       \/ \E cond \in AskedNames :
            last' = Answered("condition_values", <<i, cond>>, ConditionValues(heap[i], cond))
       \/ \E req \in ArgRequired :
            last' = Answered("condition_combinations", <<i, req>>,
                             ConditionCombinations(heap[i], req))
  /\ iter' = NoIter
  /\ UNCHANGED heap

Prob ==
  /\ \E i \in 1..Len(heap) :
       \/ last' = Answered("prob_correct", <<i>>, ProbCorrect(heap[i]))
       \/ last' = Answered("prob_error", <<i>>, ProbError(heap[i]))
       \/ last' = Answered("prob_undecided", <<i>>, ProbUndecided(heap[i]))
       \/ last' = Answered("prob_correct_forced", <<i>>, ProbCorrectForced(heap[i]))
       \/ last' = Answered("prob_error_forced", <<i>>, ProbErrorForced(heap[i]))
  /\ iter' = NoIter
  /\ UNCHANGED heap

Density ==
  /\ \E i \in 1..Len(heap), dt \in ArgDt, T_dur \in ArgDur :
       \/ last' = Answered("pdf_corr", <<i, dt, T_dur>>, PdfCorr(heap[i], dt, T_dur))
       \/ last' = Answered("pdf_err", <<i, dt, T_dur>>, PdfErr(heap[i], dt, T_dur))
       \/ last' = Answered("cdf_corr", <<i, dt, T_dur>>, CdfCorr(heap[i], dt, T_dur))
       \/ last' = Answered("cdf_err", <<i, dt, T_dur>>, CdfErr(heap[i], dt, T_dur))
  /\ iter' = NoIter
  /\ UNCHANGED heap

\* Sample.items: a new iterator over heap[i]
Items ==
  /\ \E i \in 1..Len(heap), correct \in BOOLEAN :
       /\ iter' = IterInit(i, correct)
       /\ last' = [op |-> "items", st |-> "ok", args |-> <<i, correct>>, ret |-> <<>>]
  /\ UNCHANGED heap

\* _Sample_Iter_Wraper.next on the live iterator
IterNext ==
  /\ iter.live
  /\ LET r == IterNextResult(iter, heap[iter.sample])
     IN /\ iter' = [iter EXCEPT !.i = r.i]
        /\ last' = [op |-> "next", st |-> r.st, args |-> <<iter.i>>, ret |-> r.ret]
  /\ UNCHANGED heap

Query == Length \/ AllTimes \/ Conditions \/ Prob \/ Density \/ Items \/ IterNext

Next == New \/ Add \/ Subset \/ FromNumpyArray

\* the four ways a Sample comes to be, from no Sample at all
Spec == Init /\ [][Next]_vars

\* the queries on one Sample with arbitrary times
SpecQuery == InitQuery /\ [][Query]_vars

Operate == Add \/ Subset \/ Query

\* every operation on a Sample with arbitrary times, and on what add and
\* subset make of it
SpecOperate == InitQuery /\ [][Operate]_vars

(* ------------------------------ claims -------------------------------- *)
\* the Sample an operation was called on (heap only grows, so the index it was
\* called with still names it)
Self == heap[last.args[1]]

Constructions == {"Sample", "__add__", "subset", "from_numpy_array"}

IsSample(x) == "corr" \in DOMAIN x

\* the values of partition j (1 correct, 2 error, 3 non-decision) of condition k
PartValues(s, k, j) ==
  IF j = 3 /\ Len(s.conditions[k]) = 2 THEN <<>> ELSE s.conditions[k][j].v

\* the alignment of a Sample's condition values with its three partitions
AlignedTuple(t, ncorr, nerr, non_decision) ==
  /\ Len(t[1].v) = ncorr
  /\ Len(t[2].v) = nerr
  /\ \/ Len(t) = 3 /\ Len(t[3].v) = non_decision
     \/ Len(t) = 2 /\ non_decision = 0

AlignedSample(s) ==
  \A k \in Range(s.keys) :
     AlignedTuple(s.conditions[k], Len(s.corr.v), Len(s.err.v), s.non_decision)

AlignedArgs(a) ==
  \A k \in Range(a[4]) : AlignedTuple(a[5][k], Len(a[1].v), Len(a[2].v), a[3])

\* C3: every Sample that exists, however it was made (constructor, add, subset,
\* from_numpy_array), has each condition's correct and error values as long as
\* its correct and error times, and its non-decision values either present and
\* non_decision long or absent with non_decision = 0; and a constructor call
\* whose arguments are not so aligned ends in the validation (assertion) error
\* and returns no Sample.
C3_AlignmentInvariant ==
  /\ \A i \in 1..Len(heap) : AlignedSample(heap[i])
  /\ (last.op \in Constructions /\ last.st = "ok")
       => (IsSample(last.ret) /\ AlignedSample(last.ret))
  /\ (last.op = "Sample" /\ ~AlignedArgs(last.args))
       => (last.st = "AssertionError" /\ ~IsSample(last.ret))

\* a misaligned constructor call was rejected while an aligned Sample with a
\* condition and a non-decision trial is alive
C3_Witness ==
  /\ last.op = "Sample"
  /\ ~AlignedArgs(last.args)
  /\ last.st = "AssertionError"
  /\ Len(heap) >= 1
  /\ heap[1].keys # <<>>
  /\ heap[1].non_decision > 0

\* C6 as stated: add fails with the incompatibility error when the condition
\* name sets differ; when they are equal and the correct and error partitions
\* have equal lengths it returns a Sample that passes validation, whose
\* non_decision is the sum and whose non-decision values per condition are the
\* concatenation of the operands'.
C6_AddAsClaimed ==
  last.op = "__add__" =>
    LET a == heap[last.args[1]]
        b == heap[last.args[2]]
    IN /\ Range(a.keys) # Range(b.keys)
            => last.st = "AssertionError: Canot add with unlike conditions"
       /\ (/\ Range(a.keys) = Range(b.keys)
           /\ Len(a.corr.v) = Len(b.corr.v)
           /\ Len(a.err.v) = Len(b.err.v))
            => /\ last.st = "ok"
               /\ AlignedSample(last.ret)
               /\ last.ret.non_decision = a.non_decision + b.non_decision
               /\ \A k \in Range(a.keys) :
                    PartValues(last.ret, k, 3) = PartValues(a, k, 3) \o PartValues(b, k, 3)

\* C8 as stated: subset() with no filters succeeds on every Sample and returns
\* one of the same length, times, non_decision, condition names and values.
C8_SubsetNoFilterAsClaimed ==
  (last.op = "subset" /\ last.args[2] = <<>>) =>
    /\ last.st = "ok"
    /\ SampleLen(last.ret) = SampleLen(Self)
    /\ last.ret.corr.v = Self.corr.v
    /\ last.ret.err.v = Self.err.v
    /\ last.ret.non_decision = Self.non_decision
    /\ last.ret.keys = Self.keys
    /\ \A k \in Range(Self.keys) : \A j \in 1..3 :
         PartValues(last.ret, k, j) = PartValues(Self, k, j)

\* whether a trial's value passes a filter, as documented
Passes(f, value) ==
  IF f.kind = "scalar" THEN value = f.x ELSE value \in f.s

\* the positions of partition j that pass every filter
Kept(s, j, fkeys, fv) ==
  LET n == IF j = 1 THEN Len(s.corr.v) ELSE IF j = 2 THEN Len(s.err.v) ELSE s.non_decision
  IN {i \in 1..n : \A k \in Range(fkeys) : Passes(fv[k], PartValues(s, k, j)[i])}

RECURSIVE Pick(_, _, _)
\* the elements of values at the positions in keep, from position i on, in order
Pick(values, keep, i) ==
  IF i > Len(values) THEN <<>>
  ELSE (IF i \in keep THEN <<values[i]>> ELSE <<>>) \o Pick(values, keep, i + 1)

\* C2 as stated: subset(filters), the filters naming conditions of the Sample,
\* returns the Sample of exactly the trials of
\* each partition that pass every filter (predicate true, member of the
\* container, equal to the scalar), the times and every condition's values cut
\* by the same positions.
C2_SubsetAsClaimed ==
  (/\ last.op = "subset"
   /\ last.args[2] # <<>>
   /\ Range(last.args[2]) \subseteq Range(Self.keys)) =>
    LET fkeys == last.args[2]
        fv == last.args[3]
    IN /\ last.st = "ok"
       /\ last.ret.corr.v = Pick(Self.corr.v, Kept(Self, 1, fkeys, fv), 1)
       /\ last.ret.err.v = Pick(Self.err.v, Kept(Self, 2, fkeys, fv), 1)
       /\ last.ret.non_decision = Cardinality(Kept(Self, 3, fkeys, fv))
       /\ last.ret.keys = Self.keys
       /\ \A k \in Range(Self.keys) : \A j \in 1..3 :
            PartValues(last.ret, k, j) = Pick(PartValues(Self, k, j), Kept(Self, j, fkeys, fv), 1)

RECURSIVE RowsWith(_, _)
\* the rows of a table whose flag (column 1, from 0) is the given one
RowsWith(rows, flag) ==
  IF rows = <<>> THEN <<>>
  ELSE (IF Head(rows)[2] = flag THEN <<Head(rows)>> ELSE <<>>) \o RowsWith(Tail(rows), flag)

ColumnOf(rows, j) == [r \in 1..Len(rows) |-> rows[r][j]]

\* C4 as stated: from a table of m >= 2 columns and m-2 names comes a Sample
\* with non_decision = 0, the times of the flag-1 and flag-0 rows, and one
\* condition per name, the i-th (from 0) holding column i+2 (from 0) split by
\* the same rows, with no non-decision values.
C4_FromTableAsClaimed ==
  (/\ last.op = "from_numpy_array"
   /\ last.args[1].m >= 2
   /\ Len(last.args[2]) = last.args[1].m - 2) =>
    LET data == last.args[1]
        names == last.args[2]
        c == RowsWith(data.rows, 1)
        nc == RowsWith(data.rows, 0)
    IN /\ last.st = "ok"
       /\ last.ret.non_decision = 0
       /\ last.ret.corr.v = ColumnOf(c, 1)
       /\ last.ret.err.v = ColumnOf(nc, 1)
       /\ Len(last.ret.keys) = Len(names)
       /\ Range(last.ret.keys) = Range(names)
       /\ \A i \in 1..Len(names) :
            /\ PartValues(last.ret, names[i], 1) = ColumnOf(c, i + 2)
            /\ PartValues(last.ret, names[i], 2) = ColumnOf(nc, i + 2)
            /\ PartValues(last.ret, names[i], 3) = <<>>

\* C1 as stated: the n-th next() of items(correct) returns the n-th trial of
\* the chosen partition with its condition values, and the call after the
\* partition's last trial signals the end (StopIteration); nothing else is
\* raised, whatever the other partition and non_decision hold.
C1_ItemsAsClaimed ==
  (last.op = "next" /\ iter.live) =>
    LET s == heap[iter.sample]
        part == IF iter.correct THEN s.corr.v ELSE s.err.v
        j == IF iter.correct THEN 1 ELSE 2
    IN \/ /\ last.st = "ok"
          /\ iter.i \in 1..Len(part)
          /\ last.ret = <<part[iter.i], [k \in Range(s.keys) |-> PartValues(s, k, j)[iter.i]]>>
       \/ /\ last.st = "StopIteration"
          /\ iter.i = Len(part)

\* the combinations of observed values of the conditions in names that some
\* trial of s has
Observed(s, names) ==
  {p \in [Range(names) -> UNION {ValueSet(s, c) : c \in Range(names)}] :
     /\ \A c \in Range(names) : p[c] \in ValueSet(s, c)
     /\ \E j \in 1..3 :
          \E i \in 1..(IF j = 1 THEN Len(s.corr.v)
                       ELSE IF j = 2 THEN Len(s.err.v) ELSE s.non_decision) :
             \A c \in Range(names) : PartValues(s, c, j)[i] = p[c]}

\* C5 as stated: condition_combinations returns the elements of the product of
\* the included conditions' observed values whose subset is non-empty, and
\* [{}] when there is none.
C5_CombinationsAsClaimed ==
  last.op = "condition_combinations" =>
    LET names == IF last.args[2].none THEN Self.keys
                 ELSE SelectSeq(Self.keys, LAMBDA n : n \in last.args[2].names)
        combs == Observed(Self, names)
    IN /\ last.st = "ok"
       /\ last.ret = IF combs = {} THEN {<<>>} ELSE combs

\* the number of trials of the Sample an operation was called on
Trials == Len(Self.corr.v) + Len(Self.err.v) + Self.non_decision

\* whether the ratio r is n/d
IsRatio(r, n, d) == r.den > 0 /\ r.num * d = n * r.den

\* C7: on a non-empty Sample prob_correct, prob_error and prob_undecided are
\* exactly the number of correct times, of error times and non_decision over
\* the number of trials, each within [0, 1], and the three add up to 1.
C7_Probabilities ==
  (last.op \in {"prob_correct", "prob_error", "prob_undecided"} /\ Trials # 0) =>
    /\ last.st = "ok"
    /\ IsRatio(last.ret,
               IF last.op = "prob_correct" THEN Len(Self.corr.v)
               ELSE IF last.op = "prob_error" THEN Len(Self.err.v)
               ELSE Self.non_decision,
               Trials)
    /\ 0 <= last.ret.num
    /\ last.ret.num <= last.ret.den
    /\ LET sum == RatAdd(ProbCorrect(Self).ret,
                         RatAdd(ProbError(Self).ret, ProbUndecided(Self).ret))
       IN IsRatio(sum, 1, 1)

\* prob_correct of a Sample with one correct trial of two gave 1/2
C7_Witness ==
  /\ last.op = "prob_correct"
  /\ last.st = "ok"
  /\ Len(Self.corr.v) = 1
  /\ Trials = 2
  /\ IsRatio(last.ret, 1, 2)

\* the times of the pdf's partition, and those inside the histogram's range
PdfTimes == IF last.op = "pdf_corr" THEN Self.corr.v ELSE Self.err.v

InsideRange == {i \in DOMAIN PdfTimes :
                  /\ 0 - Half(last.args[2]) <= PdfTimes[i]
                  /\ PdfTimes[i] <= last.args[3] + Half(last.args[2])}

\* sum(pdf) * dt
Mass == Ratio(SumNum(last.ret, Len(last.ret)) * last.args[2], last.ret[1].den)

\* C9 as stated: on a non-empty Sample sum(pdf_corr(dt, T_dur)) * dt is
\* prob_correct(), every correct trial being counted in one bin; likewise
\* pdf_err and prob_error().
C9_MassAsClaimed ==
  (last.op \in {"pdf_corr", "pdf_err"} /\ Trials # 0) =>
    /\ last.st = "ok"
    /\ IsRatio(Mass, Len(PdfTimes), Trials)

\* C9 amended: sum(pdf) * dt is the number of the partition's times inside
\* [-dt/2, T_dur + dt/2] over the number of trials: a time inside the range is
\* counted in exactly one bin, a time outside it in none.
C9_MassOfTimesInRange ==
  (last.op \in {"pdf_corr", "pdf_err"} /\ Trials # 0) =>
    /\ last.st = "ok"
    /\ IsRatio(Mass, Cardinality(InsideRange), Trials)
    /\ (Cardinality(InsideRange) = Len(PdfTimes)) <=> IsRatio(Mass, Len(PdfTimes), Trials)

\* pdf_corr of a Sample with one correct time on the range's upper edge and
\* one beyond it
C9_Witness ==
  /\ last.op = "pdf_corr"
  /\ last.st = "ok"
  /\ Len(PdfTimes) = 2
  /\ Cardinality(InsideRange) = 1
  /\ \E i \in InsideRange : PdfTimes[i] = last.args[3] + Half(last.args[2])

\* C10: no operation changes a Sample that exists: every step leaves each
\* Sample's times, non_decision and conditions as they were, and what add or
\* subset returns is one more Sample, not one of its operands.
C10_NothingMutates ==
  [][/\ Len(heap') \in {Len(heap), Len(heap) + 1}
     /\ \A i \in 1..Len(heap) : heap'[i] = heap[i]
     /\ (last'.op \in {"__add__", "subset"} /\ last'.st = "ok" /\ Len(heap) < MaxSamples)
          => (Len(heap') = Len(heap) + 1 /\ heap'[Len(heap')] = last'.ret)]_vars

\* add returned the elementwise sum of a Sample with a condition and itself,
\* and both are alive
C10_Witness ==
  /\ last.op = "__add__"
  /\ last.st = "ok"
  /\ Len(heap) = 2
  /\ heap[1].keys # <<>>
  /\ Len(heap[1].corr.v) > 0
  /\ heap[2] = last.ret
  /\ heap[2] # heap[1]

====
